---- MODULE Spec2Model ----
(***************************************************************************)
(* Model of the zenml pipeline CLI (src/src/zenml/cli/pipeline.py) and of  *)
(* the scheduled-run example script                                        *)
(* (src/examples/kubeflow_pipelines_orchestration/run_schedule.py).        *)
(*                                                                         *)
(* One behaviour is one invocation of one entry point: `zenml pipeline     *)
(* run`, `zenml pipeline list`, `zenml pipeline runs list`, or the example *)
(* script.  The inputs (module, YAML config, store content, arguments,     *)
(* clock) are chosen in Init; every call an entry point makes on a         *)
(* collaborator is appended to `calls`, every line it prints to `out`.     *)
(***************************************************************************)
EXTENDS Integers, Sequences, FiniteSets, TLC

VARIABLES
    cmd,                \* which entry point this behaviour executes
    pc,                 \* position inside the entry point
    exc,                \* the exception that ended it, or "none"
    calls,              \* calls made on collaborators, in order
    out,                \* what was printed, in order
    module,             \* run: the imported python file (name -> attribute)
    config,             \* run: the parsed YAML config
    idx,                \* run: number of entries of config.steps handled
    steps,              \* run: the `steps` dict (step name -> instance)
    pipeline_instance,  \* run: the configured pipeline instance
    project,            \* list: --project
    stack,              \* list / runs list: --stack
    pipeline,           \* runs list: the PIPELINE argument
    store,              \* list: the metadata store behind the Repository
    store0,             \* list: the store as it was when the command began
    table,              \* list: the rows handed to print_table
    is_main,            \* script: __name__ == "__main__"
    clock,              \* script: the wall clock, in seconds
    p,                  \* script: the pipeline instance
    start_time,         \* script: the value of the start_time argument
    end_time,           \* script: the value of the end_time argument
    schedule            \* script: the Schedule handed to p.run

vars == << cmd, pc, exc, calls, out, module, config, idx, steps,
           pipeline_instance, project, stack, pipeline, store, store0, table,
           is_main, clock, p, start_time, end_time, schedule >>

runVars == << module, config >>
listVars == << project, stack, pipeline, store0 >>
scriptVars == << is_main >>

----------------------------------------------------------------------------
(* Bounds of the model.                                                    *)

MaxSteps == 2           \* entries under the config's `steps` key
MaxPipelines == 2       \* pipelines recorded in the store
MaxRuns == 2            \* runs recorded per pipeline in the store
MaxTick == 2            \* seconds the clock may advance between two reads
MaxClock == 3           \* latest clock value at script start

----------------------------------------------------------------------------
(* Generic helpers.                                                        *)

Range(s) == { s[k] : k \in 1..Len(s) }

None == "None"

\* An entry of `calls`: the operation, its argument, and for an attribute
\* lookup what it was for and how it ended.
Event(op, arg) ==
    [op |-> op, arg |-> arg, kind |-> "", raised |-> "none", value |-> None]

Ops(log) == { log[k].op : k \in 1..Len(log) }

Positions(log, op, arg) == { k \in 1..Len(log) : log[k] = Event(op, arg) }

OpPositions(log, op) == { k \in 1..Len(log) : log[k].op = op }

----------------------------------------------------------------------------
(* Inputs of `zenml pipeline run`: the python module and the YAML config.  *)

\* Attribute names a config can mention, and the value the user's python
\* file binds to each name it defines.
Names == {"Alpha", "Beta"}

AttrValue == [Alpha |-> "ClassAlpha", Beta |-> "ClassBeta"]

\* A python module: a mapping from the names it defines to their values.
Modules == { [n \in D |-> AttrValue[n]] : D \in SUBSET Names }

\* A YAML value as python sees it after yaml_utils.read_yaml: its type and
\* its content (only the field of its type is meaningful).
YamlValue(type, s, n, b, l, d) ==
    [type |-> type, s |-> s, n |-> n, b |-> b, l |-> l, d |-> d]

NoneV == YamlValue("NoneType", "", 0, FALSE, <<>>, <<>>)
StrV(s) == YamlValue("str", s, 0, FALSE, <<>>, <<>>)
IntV(n) == YamlValue("int", "", n, FALSE, <<>>, <<>>)
BoolV(b) == YamlValue("bool", "", 0, b, <<>>, <<>>)
ListV(l) == YamlValue("list", "", 0, FALSE, l, <<>>)
\* a dict is the sequence of its (key, value) items, in insertion order
DictV(d) == YamlValue("dict", "", 0, FALSE, <<>>, d)

\* Python truth value of a YAML value (`if materializers_config:`).
Truthy(v) ==
    CASE v.type = "NoneType" -> FALSE
      [] v.type = "str" -> v.s # ""
      [] v.type = "int" -> v.n # 0
      [] v.type = "bool" -> v.b
      [] v.type = "list" -> Len(v.l) > 0
      [] v.type = "dict" -> Len(v.d) > 0

MaterializerValues ==
    { NoneV, StrV(""), StrV("Alpha"), StrV("Beta"),
      DictV(<<>>), DictV(<< <<"out1", "Alpha">> >>),
      DictV(<< <<"out1", "Alpha">>, <<"out2", "Beta">> >>),
      ListV(<<>>), ListV(<<"Alpha">>),
      IntV(0), IntV(1), BoolV(FALSE), BoolV(TRUE) }

StepConfig(keys, source, materializers) ==
    [keys |-> keys, source |-> source, materializers |-> materializers]

\* Step configurations the runs draw from: every materializers value on a
\* step with a source, a second source, a step without source, and a step
\* with a key StepConfigurationKeys does not know.
StepConfigs ==
    { StepConfig({"source", "materializers"}, "Alpha", m) :
        m \in MaterializerValues }
    \cup { StepConfig({"source"}, n, NoneV) : n \in Names }
    \cup { StepConfig({"parameters"}, "", NoneV),
           StepConfig({"source", "bogus"}, "Alpha", NoneV) }

\* Keys of the `steps` mapping, in the order the YAML file lists them.
StepNameList == << "importer", "trainer", "evaluator", "normalizer" >>

StepEntries ==
    UNION { [1..n -> StepConfigs] : n \in 0..MaxSteps }

Config(keys, name, entries) ==
    [keys |-> keys, name |-> name, steps |-> entries]

Configs ==
    { Config({"name", "steps"}, n, e) : n \in Names, e \in StepEntries }
    \cup { Config({"steps"}, "", e) : e \in StepEntries }
    \cup { Config({"name", "steps", "bogus"}, "Alpha", e) : e \in StepEntries }
    \cup { Config({"name"}, "Alpha", <<>>) }

ConfigPath == "config.yaml"

NoInstance == [cls |-> None, steps |-> <<>>, config_path |-> None,
               overwrite_step_parameters |-> FALSE]

----------------------------------------------------------------------------
(* Collaborators of run_pipeline that are not part of pipeline.py.         *)

\* ConfigKeys.key_check: the config must hold every required key and no
\* key outside required and optional ones.
KeyCheck(keys, required, optional) ==
    required \subseteq keys /\ keys \subseteq (required \cup optional)

PipelineKeyCheck(cfg) == KeyCheck(cfg.keys, {"name", "steps"}, {})

\* The outcomes StepConfigurationKeys.key_check can have on a step config:
\* whether "source" is required is decided outside pipeline.py, so a step
\* without source either fails here or at the subscript of line 91.
StepKeyCheckOutcomes(sc) ==
    { KeyCheck(sc.keys, {"source"}, {"parameters", "materializers"}),
      KeyCheck(sc.keys, {}, {"source", "parameters", "materializers"}) }

\* step_class(): a fresh step instance without materializers.
NoMaterializers == [kind |-> "unset", single |-> None, dict |-> <<>>]

NewStep(cls) == [cls |-> cls, materializers |-> NoMaterializers]

\* BaseStep.with_return_materializers: the same step, materializers set.
WithReturnMaterializers(inst, mats) ==
    [inst EXCEPT !.materializers = mats]

\* BasePipeline.with_config: the same pipeline, remembering its arguments.
WithConfig(inst, path, overwrite) ==
    [inst EXCEPT !.config_path = path,
                 !.overwrite_step_parameters = overwrite]

----------------------------------------------------------------------------
(* _get_module_attribute, pipeline.py:34-54.                               *)

Returned(v) == [raised |-> "none", value |-> v]
Raised(e) == [raised |-> e, value |-> None]

\* getattr(module, attribute_name) of line 49.
GetAttr(mod, name) ==
    IF name \in DOMAIN mod THEN Returned(mod[name])
    ELSE Raised("AttributeError")

\* Variant: the AttributeError of getattr is not translated.
get_module_attribute_unwrapped(mod, attribute_name) ==
    GetAttr(mod, attribute_name)

get_module_attribute(mod, attribute_name) ==
    LET r == GetAttr(mod, attribute_name)
    IN IF r.raised = "AttributeError"
       THEN Raised("PipelineConfigurationError")
       ELSE r

\* The entry of `calls` for one call of _get_module_attribute.
Lookup(kind, name, r) ==
    [op |-> "_get_module_attribute", arg |-> name, kind |-> kind,
     raised |-> r.raised, value |-> r.value]

----------------------------------------------------------------------------
(* run_pipeline, pipeline.py:71-126.                                       *)

\* step_config.get(StepConfigurationKeys.MATERIALIZERS_, None), line 94.
GetMaterializersConfig(sc) ==
    IF "materializers" \in sc.keys THEN sc.materializers ELSE NoneV

\* Index of the first item of a materializers dict whose source the module
\* does not define; Len + 1 when it defines them all.
FirstMissing(mod, d) ==
    LET bad == { k \in 1..Len(d) :
                   get_module_attribute(mod, d[k][2]).raised # "none" }
    IN IF bad = {} THEN Len(d) + 1
       ELSE CHOOSE k \in bad : \A j \in bad : k <= j

\* Variant: a materializers dict keeps its source names instead of the
\* attributes they name.
ResolveMaterializersNoLookup(mod, mc) ==
    IF mc.type = "str" THEN
        LET r == get_module_attribute(mod, mc.s)
        IN [raised |-> r.raised,
            lookups |-> << Lookup("materializer", mc.s, r) >>,
            value |-> [kind |-> "single", single |-> r.value, dict |-> <<>>]]
    ELSE IF mc.type = "dict" THEN
        [raised |-> "none", lookups |-> <<>>,
         value |-> [kind |-> "dict", single |-> None,
                    dict |-> [o \in { mc.d[k][1] : k \in 1..Len(mc.d) } |->
                                LET k == CHOOSE k \in 1..Len(mc.d) :
                                           mc.d[k][1] = o
                                IN mc.d[k][2]]]]
    ELSE [raised |-> "PipelineConfigurationError", lookups |-> <<>>,
          value |-> NoMaterializers]

\* Lines 100-115: the materializers a truthy config resolves to, with the
\* lookups made on the way, or the exception raised.
ResolveMaterializers(mod, mc) ==
    IF mc.type = "str" THEN
        LET r == get_module_attribute(mod, mc.s)
        IN [raised |-> r.raised,
            lookups |-> << Lookup("materializer", mc.s, r) >>,
            value |-> [kind |-> "single", single |-> r.value, dict |-> <<>>]]
    ELSE IF mc.type = "dict" THEN
        LET stop == FirstMissing(mod, mc.d)
            upto == IF stop > Len(mc.d) THEN Len(mc.d) ELSE stop
        IN [raised |-> IF stop > Len(mc.d) THEN "none"
                       ELSE "PipelineConfigurationError",
            lookups |-> [k \in 1..upto |->
                           Lookup("materializer", mc.d[k][2],
                                  get_module_attribute(mod, mc.d[k][2]))],
            value |-> [kind |-> "dict", single |-> None,
                       dict |-> [o \in { mc.d[k][1] : k \in 1..Len(mc.d) } |->
                                   LET k == CHOOSE k \in 1..Len(mc.d) :
                                              mc.d[k][1] = o
                                   IN get_module_attribute(mod, mc.d[k][2]).value]]]
    ELSE [raised |-> "PipelineConfigurationError", lookups |-> <<>>,
          value |-> NoMaterializers]

\* Lines 94-118: the step instance after the materializers block.
WireMaterializers(mod, step_name, step_instance, materializers_config) ==
    IF Truthy(materializers_config) THEN
        LET m == ResolveMaterializers(mod, materializers_config)
        IN IF m.raised # "none"
           THEN [raised |-> m.raised, calls |-> m.lookups,
                 instance |-> step_instance]
           ELSE [raised |-> "none",
                 calls |-> Append(m.lookups,
                                  Event("with_return_materializers", step_name)),
                 instance |-> WithReturnMaterializers(step_instance, m.value)]
    ELSE [raised |-> "none", calls |-> <<>>, instance |-> step_instance]

\* Lines 89-120: one iteration of the loop over config["steps"].items();
\* key_ok is the outcome of StepConfigurationKeys.key_check.
StepIteration(mod, step_name, step_config, key_ok) ==
    LET checked == << Event("StepConfigurationKeys.key_check", step_name) >>
    IN IF ~key_ok THEN
           [raised |-> "AssertionError", calls |-> checked,
            instance |-> NewStep(None)]
       ELSE IF "source" \notin step_config.keys THEN
           [raised |-> "KeyError", calls |-> checked,
            instance |-> NewStep(None)]
       ELSE
           LET r == get_module_attribute(mod, step_config.source)
               looked == Append(checked, Lookup("step", step_config.source, r))
           IN IF r.raised # "none" THEN
                  [raised |-> r.raised, calls |-> looked,
                   instance |-> NewStep(None)]
              ELSE
                  LET w == WireMaterializers(mod, step_name, NewStep(r.value),
                               GetMaterializersConfig(step_config))
                  IN [raised |-> w.raised,
                      calls |-> Append(looked, Event("step_class", step_name))
                                \o w.calls,
                      instance |-> w.instance]

Raise(e) == /\ exc' = e
            /\ pc' = "raised"

\* Variant: the top-level key check is left out.
RunLoadUnchecked ==
    /\ cmd = "run" /\ pc = "start"
    /\ calls' = calls \o << Event("import_python_file", "python_file"),
                            Event("read_yaml", ConfigPath) >>
    /\ pc' = "lookup_pipeline"
    /\ UNCHANGED << cmd, exc, out, runVars, idx, steps, pipeline_instance,
                    listVars, store, table, scriptVars, clock, p,
                    start_time, end_time, schedule >>

\* Lines 78-80: import the file, read the YAML, check the top-level keys.
RunLoad ==
    /\ cmd = "run" /\ pc = "start"
    /\ calls' = calls \o << Event("import_python_file", "python_file"),
                            Event("read_yaml", ConfigPath),
                            Event("PipelineConfigurationKeys.key_check", "config") >>
    /\ IF PipelineKeyCheck(config)
       THEN pc' = "lookup_pipeline" /\ exc' = exc
       ELSE Raise("AssertionError")
    /\ UNCHANGED << cmd, out, runVars, idx, steps, pipeline_instance,
                    listVars, store, table, scriptVars, clock, p,
                    start_time, end_time, schedule >>

\* Lines 82-85: look the pipeline class up, start with no steps.
RunLookupPipeline ==
    /\ cmd = "run" /\ pc = "lookup_pipeline"
    /\ LET r == get_module_attribute(module, config.name)
       IN /\ calls' = Append(calls, Lookup("pipeline", config.name, r))
          /\ IF r.raised = "none"
             THEN pc' = "loop" /\ exc' = exc
             ELSE Raise(r.raised)
    /\ steps' = <<>>
    /\ idx' = 0
    /\ UNCHANGED << cmd, out, runVars, pipeline_instance,
                    listVars, store, table, scriptVars, clock, p,
                    start_time, end_time, schedule >>

\* Lines 86-120: the next entry of config["steps"].
RunStep ==
    /\ cmd = "run" /\ pc = "loop" /\ idx < Len(config.steps)
    /\ \E key_ok \in StepKeyCheckOutcomes(config.steps[idx + 1]) :
         LET step_name == StepNameList[idx + 1]
             it == StepIteration(module, step_name, config.steps[idx + 1],
                                 key_ok)
         IN /\ calls' = calls \o it.calls
            /\ IF it.raised = "none"
               THEN /\ steps' = (step_name :> it.instance) @@ steps
                    /\ idx' = idx + 1
                    /\ UNCHANGED << pc, exc >>
               ELSE /\ Raise(it.raised)
                    /\ UNCHANGED << steps, idx >>
    /\ UNCHANGED << cmd, out, runVars, pipeline_instance,
                    listVars, store, table, scriptVars, clock, p,
                    start_time, end_time, schedule >>

\* Lines 122-125: construct the pipeline from the steps and configure it.
\* The constructor is the user's pipeline class and may reject the steps.
RunConfigure ==
    /\ cmd = "run" /\ pc = "loop" /\ idx = Len(config.steps)
    /\ \E accepted \in BOOLEAN :
         IF accepted
         THEN /\ calls' = calls \o << Event("pipeline_class", config.name),
                                      Event("with_config", ConfigPath) >>
              /\ pipeline_instance' =
                   WithConfig([NoInstance EXCEPT !.cls = module[config.name],
                                                 !.steps = steps],
                              ConfigPath, TRUE)
              /\ pc' = "configured" /\ exc' = exc
         ELSE /\ calls' = Append(calls, Event("pipeline_class", config.name))
              /\ Raise("PipelineInterfaceError")
              /\ UNCHANGED pipeline_instance
    /\ UNCHANGED << cmd, out, runVars, idx, steps,
                    listVars, store, table, scriptVars, clock, p,
                    start_time, end_time, schedule >>

\* Line 126: pipeline_instance.run().
RunInvoke ==
    /\ cmd = "run" /\ pc = "configured"
    /\ calls' = Append(calls, Event("run", config.name))
    /\ pc' = "done"
    /\ UNCHANGED << cmd, exc, out, runVars, idx, steps, pipeline_instance,
                    listVars, store, table, scriptVars, clock, p,
                    start_time, end_time, schedule >>

----------------------------------------------------------------------------
(* Inputs of the listing commands: the arguments and the metadata store.   *)

ProjectNames == {"default", "ghost"}

StackArgs == {None, "local"}

PipelineNameList == << "mnist", "iris", "churn", "fraud" >>

RunNameList == << "run_1", "run_2", "run_3", "run_4" >>

\* str(p._id)
IdStr == << "1", "2", "3", "4" >>

PipelineView(id, name, runs) == [id |-> id, name |-> name, runs |-> runs]

NoView == PipelineView(0, None, <<>>)

RunLists == { [k \in 1..n |-> RunNameList[k]] : n \in 0..MaxRuns }

\* The pipelines of a store, in the order get_pipelines returns them.
PipelineLists ==
    UNION { { [k \in 1..n |-> PipelineView(k, PipelineNameList[k], rs[k])] :
                rs \in [1..n -> RunLists] } : n \in 0..MaxPipelines }

Stores ==
    [projects : SUBSET ProjectNames, pipelines : PipelineLists]

PipelineArgs ==
    {None} \cup { PipelineNameList[k] : k \in 1..MaxPipelines }

----------------------------------------------------------------------------
(* The repository and the CLI helpers, which are not part of pipeline.py.  *)

\* repo.zen_store.get_project(name): KeyError for an unknown project.
GetProject(st, name) ==
    IF name \in st.projects THEN Returned(name) ELSE Raised("KeyError")

\* repo.get_pipelines(stack_name, project): the pipeline views of the store.
GetPipelines(st, stack_name, project_name) == st.pipelines

\* repo.get_pipeline(name, stack_name): the view of that name, or None.
GetPipeline(st, name, stack_name) ==
    LET hit == { k \in 1..Len(st.pipelines) : st.pipelines[k].name = name }
    IN IF hit = {} THEN NoView ELSE st.pipelines[CHOOSE k \in hit : TRUE]

\* pipeline_view.get_run_names()
GetRunNames(view) == view.runs

\* What each repository operation leaves of the store.
StoreAfter(op, st, arg) ==
    CASE op = "create_project" ->
             [st EXCEPT !.projects = st.projects \cup {arg}]
      [] op = "delete_pipeline" ->
             [st EXCEPT !.pipelines =
                 SelectSeq(st.pipelines, LAMBDA v : v.name # arg)]
      [] OTHER -> st

\* cli_utils.error(text): reports the text by raising click.ClickException.
CliErrorRaises == "ClickException"

Printed(op, text, about) == [op |-> op, text |-> text, about |-> about]

\* The store after the repository calls of a log, applied in order.
RECURSIVE StoreAfterCalls(_, _)
StoreAfterCalls(st, log) ==
    IF log = <<>> THEN st
    ELSE StoreAfterCalls(StoreAfter(Head(log).op, st, Head(log).arg), Tail(log))

\* The rows of a nested comprehension: the concatenation of the inner lists.
RECURSIVE Flatten(_)
Flatten(ss) == IF ss = <<>> THEN <<>> ELSE Head(ss) \o Flatten(Tail(ss))

----------------------------------------------------------------------------
(* list_pipelines, pipeline.py:132-149.                                    *)

\* Variant: an unknown project is created instead of reported.
ProjectCheckCreating(st, project_name) ==
    IF project_name # None THEN
        LET r == GetProject(st, project_name)
        IN IF r.raised = "KeyError"
           THEN [calls |-> << Event("get_project", project_name),
                              Event("create_project", project_name) >>,
                 out |-> <<>>, raised |-> "none"]
           ELSE [calls |-> << Event("get_project", project_name) >>,
                 out |-> <<>>, raised |-> "none"]
    ELSE [calls |-> <<>>, out |-> <<>>, raised |-> "none"]

\* Variant: the KeyError is reported without ending the command.
ProjectCheckContinuing(st, project_name) ==
    IF project_name # None THEN
        LET r == GetProject(st, project_name)
        IN [calls |-> << Event("get_project", project_name) >>,
            out |-> IF r.raised = "KeyError"
                    THEN << Printed("error", "No such project", project_name) >>
                    ELSE <<>>,
            raised |-> "none"]
    ELSE [calls |-> <<>>, out |-> <<>>, raised |-> "none"]

\* Lines 138-142: the project check.
ProjectCheck(st, project_name) ==
    IF project_name # None THEN
        LET r == GetProject(st, project_name)
        IN IF r.raised = "KeyError"
           THEN [calls |-> << Event("get_project", project_name) >>,
                 out |-> << Printed("error", "No such project", project_name) >>,
                 raised |-> CliErrorRaises]
           ELSE [calls |-> << Event("get_project", project_name) >>,
                 out |-> <<>>, raised |-> "none"]
    ELSE [calls |-> <<>>, out |-> <<>>, raised |-> "none"]

\* Line 144: the rows of the table.
PipelineTable(pipelines) ==
    [k \in 1..Len(pipelines) |->
        [ID |-> IdStr[pipelines[k].id], NAME |-> pipelines[k].name]]

\* Lines 145-149 and 180-184: print the table, or say there is nothing.
PrintOrDeclare(rows, nothing, about) ==
    IF rows # <<>> THEN << Printed("print_table", "", None) >>
    ELSE << Printed("declare", nothing, about) >>

\* Lines 136-142.
ListPipelinesCheck ==
    /\ cmd = "list" /\ pc = "start"
    /\ LET c == ProjectCheck(store, project)
       IN /\ calls' = Append(calls, Event("Repository", "")) \o c.calls
          /\ out' = Append(out, Printed("print_active_profile", "", None))
                    \o c.out
          /\ store' = StoreAfterCalls(store, c.calls)
          /\ IF c.raised = "none"
             THEN pc' = "query" /\ exc' = exc
             ELSE Raise(c.raised)
    /\ UNCHANGED << cmd, runVars, idx, steps, pipeline_instance, listVars,
                    table, scriptVars, clock, p, start_time, end_time,
                    schedule >>

\* Lines 143-149.
ListPipelinesQuery ==
    /\ cmd = "list" /\ pc = "query"
    /\ LET pipelines == GetPipelines(store, stack, project)
           rows == PipelineTable(pipelines)
       IN /\ calls' = Append(calls, Event("get_pipelines", project))
          /\ table' = rows
          /\ out' = out \o PrintOrDeclare(rows, "No pipelines found", project)
          /\ store' = StoreAfterCalls(store,
                                      << Event("get_pipelines", project) >>)
    /\ pc' = "done"
    /\ UNCHANGED << cmd, exc, runVars, idx, steps, pipeline_instance,
                    listVars, scriptVars, clock, p, start_time,
                    end_time, schedule >>

----------------------------------------------------------------------------
(* list_runs, pipeline.py:160-184.                                         *)

\* Lines 170-173.
RunsOfPipeline(name, view) ==
    [k \in 1..Len(GetRunNames(view)) |->
        [PIPELINE |-> name, RUN |-> GetRunNames(view)[k]]]

\* Variant: an absent pipeline is listed as a pipeline without runs.
CollectRunsNoNoneCheck(st, pipeline_name, stack_name) ==
    IF pipeline_name # None THEN
        LET pipeline_view == GetPipeline(st, pipeline_name, stack_name)
        IN [calls |-> << Event("get_pipeline", pipeline_name),
                         Event("get_run_names", pipeline_name) >>,
            out |-> <<>>, raised |-> "none",
            table |-> RunsOfPipeline(pipeline_name, pipeline_view)]
    ELSE
        LET pipelines == GetPipelines(st, None, None)
        IN [calls |-> << Event("get_pipelines", None) >>
                      \o [k \in 1..Len(pipelines) |->
                            Event("get_run_names", pipelines[k].name)],
            out |-> <<>>, raised |-> "none",
            table |-> Flatten([k \in 1..Len(pipelines) |->
                         RunsOfPipeline(pipelines[k].name, pipelines[k])])]

\* Lines 166-179: the rows of the table and the repository calls made for
\* them, or the error.
CollectRuns(st, pipeline_name, stack_name) ==
    IF pipeline_name # None THEN
        LET pipeline_view == GetPipeline(st, pipeline_name, stack_name)
        IN IF pipeline_view = NoView
           THEN [calls |-> << Event("get_pipeline", pipeline_name) >>,
                 out |-> << Printed("error", "No pipeline named found",
                                    pipeline_name) >>,
                 raised |-> CliErrorRaises, table |-> <<>>]
           ELSE [calls |-> << Event("get_pipeline", pipeline_name),
                              Event("get_run_names", pipeline_name) >>,
                 out |-> <<>>, raised |-> "none",
                 table |-> RunsOfPipeline(pipeline_name, pipeline_view)]
    ELSE
        LET pipelines == GetPipelines(st, None, None)
        IN [calls |-> << Event("get_pipelines", None) >>
                      \o [k \in 1..Len(pipelines) |->
                            Event("get_run_names", pipelines[k].name)],
            out |-> <<>>, raised |-> "none",
            table |-> Flatten([k \in 1..Len(pipelines) |->
                         RunsOfPipeline(pipelines[k].name, pipelines[k])])]

\* Lines 164-179.
ListRunsCollect ==
    /\ cmd = "runs" /\ pc = "start"
    /\ LET c == CollectRuns(store, pipeline, stack)
       IN /\ calls' = Append(calls, Event("Repository", "")) \o c.calls
          /\ out' = Append(out, Printed("print_active_profile", "", None))
                    \o c.out
          /\ table' = c.table
          /\ store' = StoreAfterCalls(store, c.calls)
          /\ IF c.raised = "none"
             THEN pc' = "print" /\ exc' = exc
             ELSE Raise(c.raised)
    /\ UNCHANGED << cmd, runVars, idx, steps, pipeline_instance, listVars,
                    scriptVars, clock, p, start_time, end_time, schedule >>

\* Lines 180-184.
ListRunsPrint ==
    /\ cmd = "runs" /\ pc = "print"
    /\ out' = out \o PrintOrDeclare(table, "No pipeline runs found", pipeline)
    /\ pc' = "done"
    /\ UNCHANGED << cmd, exc, calls, runVars, idx, steps, pipeline_instance,
                    listVars, store, table, scriptVars, clock, p, start_time,
                    end_time, schedule >>

----------------------------------------------------------------------------
(* The example script, run_schedule.py:15-35.  Time is in seconds.         *)

TimedeltaMinutes == 10

IntervalSecond == 60

\* timedelta(minutes=m), in seconds
Timedelta(minutes) == minutes * 60

\* Variant: the ten minutes are not added.
ScheduleEndTimeNoDelta(now) == now

\* The value of the end_time argument, line 32, from what now() returned.
ScheduleEndTime(now) == now + Timedelta(TimedeltaMinutes)

\* Schedule(start_time=..., end_time=..., interval_second=...), lines 30-34.
Schedule(start, end, interval) ==
    [start_time |-> start, end_time |-> end, interval_second |-> interval]

NoSchedule == Schedule(0, 0, 0)

ScriptSteps == << "importer", "normalizer", "trainer", "evaluator" >>

\* Lines 15-21: the imports, then the __main__ guard.
ScriptImport ==
    /\ cmd = "script" /\ pc = "start"
    /\ calls' = calls \o << Event("import", "pipeline"),
                            Event("import", "zenml.pipelines") >>
    /\ pc' = IF is_main THEN "build" ELSE "done"
    /\ UNCHANGED << cmd, exc, out, runVars, idx, steps, pipeline_instance,
                    listVars, store, table, scriptVars, clock, p,
                    start_time, end_time, schedule >>

\* Lines 23-28: one instance of each step, then the pipeline.
ScriptBuild ==
    /\ cmd = "script" /\ pc = "build"
    /\ calls' = calls
                \o [k \in 1..Len(ScriptSteps) |->
                      Event("step_class", ScriptSteps[k])]
                \o << Event("pipeline_class", "mnist_pipeline") >>
    /\ p' = [NoInstance EXCEPT
                !.cls = "mnist_pipeline",
                !.steps = [n \in Range(ScriptSteps) |-> NewStep(n)]]
    /\ pc' = "start_time"
    /\ UNCHANGED << cmd, exc, out, runVars, idx, steps, pipeline_instance,
                    listVars, store, table, scriptVars, clock,
                    start_time, end_time, schedule >>

\* Line 31: start_time=datetime.now(); the clock has moved on since the
\* last look at it.
ScriptStartTime ==
    /\ cmd = "script" /\ pc = "start_time"
    /\ \E d \in 0..MaxTick :
         /\ clock' = clock + d
         /\ start_time' = clock + d
    /\ pc' = "end_time"
    /\ UNCHANGED << cmd, exc, calls, out, runVars, idx, steps,
                    pipeline_instance, listVars, store, table, scriptVars, p,
                    end_time, schedule >>

\* Line 32: end_time=datetime.now() + timedelta(minutes=10).
ScriptEndTime ==
    /\ cmd = "script" /\ pc = "end_time"
    /\ \E d \in 0..MaxTick :
         /\ clock' = clock + d
         /\ end_time' = ScheduleEndTime(clock + d)
    /\ pc' = "schedule"
    /\ UNCHANGED << cmd, exc, calls, out, runVars, idx, steps,
                    pipeline_instance, listVars, store, table, scriptVars, p,
                    start_time, schedule >>

\* Lines 29-35: build the Schedule and hand it to p.run.
ScriptRun ==
    /\ cmd = "script" /\ pc = "schedule"
    /\ schedule' = Schedule(start_time, end_time, IntervalSecond)
    /\ calls' = calls \o << Event("Schedule", ""), Event("run", p.cls) >>
    /\ pc' = "done"
    /\ UNCHANGED << cmd, exc, out, runVars, idx, steps, pipeline_instance,
                    listVars, store, table, scriptVars, clock, p,
                    start_time, end_time >>

----------------------------------------------------------------------------
(* The specification: one invocation of one entry point.                   *)

Commands == {"run", "list", "runs", "script"}

Idle ==
    /\ pc = "start" /\ exc = "none" /\ calls = <<>> /\ out = <<>>
    /\ idx = 0 /\ steps = <<>> /\ pipeline_instance = NoInstance
    /\ table = <<>> /\ p = NoInstance
    /\ start_time = 0 /\ end_time = 0 /\ schedule = NoSchedule

InitRun ==
    /\ cmd = "run"
    /\ module \in Modules /\ config \in Configs
    /\ project = None /\ stack = None /\ pipeline = None
    /\ store = [projects |-> {}, pipelines |-> <<>>] /\ store0 = store
    /\ is_main = FALSE /\ clock = 0

InitList ==
    /\ cmd \in {"list", "runs"}
    /\ module = <<>> /\ config = Config({}, "", <<>>)
    /\ stack \in StackArgs
    /\ store \in Stores /\ store0 = store
    /\ IF cmd = "list"
       THEN project \in {None} \cup ProjectNames /\ pipeline = None
       ELSE pipeline \in PipelineArgs /\ project = None
    /\ is_main = FALSE /\ clock = 0

InitScript ==
    /\ cmd = "script"
    /\ module = <<>> /\ config = Config({}, "", <<>>)
    /\ project = None /\ stack = None /\ pipeline = None
    /\ store = [projects |-> {}, pipelines |-> <<>>] /\ store0 = store
    /\ is_main \in BOOLEAN /\ clock \in 0..MaxClock

Init == Idle /\ (InitRun \/ InitList \/ InitScript)

Next ==
    \/ RunLoad
    \/ RunLookupPipeline
    \/ RunStep
    \/ RunConfigure
    \/ RunInvoke
    \/ ListPipelinesCheck
    \/ ListPipelinesQuery
    \/ ListRunsCollect
    \/ ListRunsPrint
    \/ ScriptImport
    \/ ScriptBuild
    \/ ScriptStartTime
    \/ ScriptEndTime
    \/ ScriptRun

Spec == Init /\ [][Next]_vars

----------------------------------------------------------------------------
(* Properties.                                                             *)

StepName(k) == StepNameList[k]

MaterializersOf(k) ==
    IF "materializers" \in config.steps[k].keys
    THEN config.steps[k].materializers ELSE NoneV

\* The names run_pipeline would have to find in the module to get through
\* step k of the config.
NamesNeededBy(k) ==
    LET sc == config.steps[k]
        mc == MaterializersOf(k)
    IN (IF "source" \in sc.keys THEN {sc.source} ELSE {})
       \cup (IF mc.type = "str" /\ mc.s # "" THEN {mc.s} ELSE {})
       \cup (IF mc.type = "dict"
             THEN { mc.d[j][2] : j \in 1..Len(mc.d) } ELSE {})

\* Step k of the config was key-checked, its source looked up, its class
\* instantiated and, if its materializers config is truthy, its
\* materializers set, in this order and before position r of `calls`.
StepPreparedBefore(k, r) ==
    \E a, b, c \in 1..Len(calls) :
       /\ a < b /\ b < c /\ c < r
       /\ calls[a] = Event("StepConfigurationKeys.key_check", StepName(k))
       /\ calls[b].op = "_get_module_attribute" /\ calls[b].kind = "step"
       /\ calls[b].arg = config.steps[k].source /\ calls[b].raised = "none"
       /\ calls[c] = Event("step_class", StepName(k))
       /\ Truthy(MaterializersOf(k)) =>
            \E d \in 1..Len(calls) :
               /\ c < d /\ d < r
               /\ calls[d] = Event("with_return_materializers", StepName(k))

\* C1: pipeline.run() is invoked at most once, exactly once when
\* run_pipeline completes, and only after every step of the config was
\* key-checked, looked up, instantiated and given its materializers and after
\* with_config(config_path, overwrite_step_parameters=True); it is never
\* invoked when the top-level key check, a step key check or an attribute
\* lookup (pipeline class, step source, materializer) fails.
C1_RunOnceAfterSetup ==
    cmd = "run" =>
       LET runs == OpPositions(calls, "run")
       IN /\ Cardinality(runs) <= 1
          /\ pc = "done" => Cardinality(runs) = 1
          /\ \A r \in runs :
                /\ \A k \in 1..Len(config.steps) : StepPreparedBefore(k, r)
                /\ \E w \in Positions(calls, "with_config", ConfigPath) :
                      /\ w < r
                      /\ \A k \in 1..Len(config.steps) :
                            StepPreparedBefore(k, w)
                /\ pipeline_instance.config_path = ConfigPath
                /\ pipeline_instance.overwrite_step_parameters = TRUE
          /\ ( \/ exc # "none"
               \/ ~PipelineKeyCheck(config)
               \/ \E k \in 1..Len(config.steps) :
                     "bogus" \in config.steps[k].keys
               \/ \E k \in 1..Len(calls) :
                     /\ calls[k].op = "_get_module_attribute"
                     /\ calls[k].raised # "none"
               \/ config.name \notin DOMAIN module
               \/ \E k \in 1..Len(config.steps) :
                     ~(NamesNeededBy(k) \subseteq DOMAIN module) )
             => runs = {}

\* A run of two steps, one of them with materializers, got to run().
C1_Witness ==
    /\ cmd = "run" /\ pc = "done"
    /\ Len(config.steps) = 2
    /\ \E k \in 1..2 : Truthy(MaterializersOf(k))
    /\ OpPositions(calls, "run") # {}

\* C3: every call of _get_module_attribute returns the module's attribute
\* of that name when the module has one and raises
\* PipelineConfigurationError otherwise, which ends run_pipeline; this for
\* the lookup of the pipeline, of a step source and of a materializer.
C3_LookupReturnsOrRaises ==
    cmd = "run" =>
       \A k \in OpPositions(calls, "_get_module_attribute") :
          /\ calls[k].kind \in {"pipeline", "step", "materializer"}
          /\ IF calls[k].arg \in DOMAIN module
             THEN /\ calls[k].raised = "none"
                  /\ calls[k].value = module[calls[k].arg]
             ELSE /\ calls[k].raised = "PipelineConfigurationError"
                  /\ exc = "PipelineConfigurationError"
                  /\ pc = "raised"
                  /\ k = Len(calls)

\* The pipeline and a step source were found, a materializer was not.
C3_Witness ==
    /\ cmd = "run"
    /\ \E a, b, c \in 1..Len(calls) :
          /\ calls[a].kind = "pipeline" /\ calls[a].raised = "none"
          /\ calls[b].kind = "step" /\ calls[b].raised = "none"
          /\ calls[c].kind = "materializer"
          /\ calls[c].raised = "PipelineConfigurationError"

\* C4: a step whose materializers value is a list, a number or a boolean
\* (truthy or not) makes run_pipeline raise PipelineConfigurationError
\* without running the pipeline.
C4_OnlyStrAndDictAllowed ==
    ( /\ cmd = "run"
      /\ \E k \in 1..Len(config.steps) :
            /\ "materializers" \in config.steps[k].keys
            /\ config.steps[k].materializers.type \in {"list", "int", "bool"} )
    => /\ OpPositions(calls, "run") = {}
       /\ pc # "done"

\* C6: when run_pipeline succeeds the pipeline class was constructed with
\* one keyword argument per entry of config.steps, keyed by the step name,
\* an instance of the class its source names; with_return_materializers
\* was called on it exactly when its materializers config is truthy, with
\* the looked-up attribute for a str and with a dict of the same output
\* names, each mapped to its looked-up attribute, for a dict.
C6_StepsWiredAsConfigured ==
    (cmd = "run" /\ pc = "done") =>
       /\ pipeline_instance.cls = module[config.name]
       /\ DOMAIN pipeline_instance.steps =
             { StepName(k) : k \in 1..Len(config.steps) }
       /\ \A k \in 1..Len(config.steps) :
             LET inst == pipeline_instance.steps[StepName(k)]
                 mc == MaterializersOf(k)
                 wired == Positions(calls, "with_return_materializers",
                                    StepName(k))
             IN /\ inst.cls = module[config.steps[k].source]
                /\ Cardinality(Positions(calls, "step_class", StepName(k))) = 1
                /\ (wired # {}) <=> Truthy(mc)
                /\ Cardinality(wired) <= 1
                /\ ~Truthy(mc) => inst.materializers = NoMaterializers
                /\ Truthy(mc) => mc.type \in {"str", "dict"}
                /\ (Truthy(mc) /\ mc.type = "str") =>
                      /\ inst.materializers.kind = "single"
                      /\ inst.materializers.single = module[mc.s]
                /\ (Truthy(mc) /\ mc.type = "dict") =>
                      /\ inst.materializers.kind = "dict"
                      /\ DOMAIN inst.materializers.dict =
                            { mc.d[j][1] : j \in 1..Len(mc.d) }
                      /\ \A j \in 1..Len(mc.d) :
                            inst.materializers.dict[mc.d[j][1]] =
                               module[mc.d[j][2]]

\* A successful run with a dict of two materializers on one step and a
\* single materializer on another.
C6_Witness ==
    /\ cmd = "run" /\ pc = "done"
    /\ \E k \in 1..Len(config.steps) :
          MaterializersOf(k).type = "dict" /\ Len(MaterializersOf(k).d) = 2
    /\ \E k \in 1..Len(config.steps) :
          MaterializersOf(k).type = "str" /\ Truthy(MaterializersOf(k))

ReadOperations == {"get_project", "get_pipelines", "get_pipeline",
                   "get_run_names"}

\* C2: list_pipelines and list_runs invoke no repository operation other
\* than get_project, get_pipelines, get_pipeline and get_run_names, and the
\* store holds the same projects, pipelines and runs as when they began.
C2_ListingIsReadOnly ==
    cmd \in {"list", "runs"} =>
       /\ (Ops(calls) \ {"Repository"}) \subseteq ReadOperations
       /\ store = store0

\* list_pipelines got through with a project that the store did not know
\* when the command began, or that it knows, on a store with pipelines.
C2_Witness ==
    /\ cmd = "list" /\ project # None
    /\ Len(store0.pipelines) > 0
    /\ "get_project" \in Ops(calls)
    /\ pc \in {"done", "raised"}

Shown == { out[k].op : k \in 1..Len(out) }

\* C7: list_pipelines with a project the store does not know reports
\* "No such project" and ends: no get_pipelines call, no table and no
\* "No pipelines found" message; without a project get_project is not
\* called.
C7_UnknownProjectEndsListing ==
    cmd = "list" =>
       /\ (project # None /\ project \notin store0.projects) =>
             /\ "get_pipelines" \notin Ops(calls)
             /\ Shown \cap {"print_table", "declare"} = {}
             /\ pc # "start" =>
                   /\ pc = "raised"
                   /\ Printed("error", "No such project", project) \in Range(out)
       /\ project = None => "get_project" \notin Ops(calls)

\* list_pipelines has reported an unknown project.
C7_Witness ==
    /\ cmd = "list" /\ pc = "raised"
    /\ project # None /\ project \notin store0.projects
    /\ Len(store0.pipelines) > 0

\* C8: list_runs with a pipeline name for which get_pipeline returns None
\* reports "No pipeline named ... found"; get_run_names is not invoked and
\* neither a table nor "No pipeline runs found" is printed.
C8_AbsentPipelineEndsListing ==
    ( /\ cmd = "runs" /\ pipeline # None
      /\ \A k \in 1..Len(store0.pipelines) :
            store0.pipelines[k].name # pipeline )
    => /\ "get_run_names" \notin Ops(calls)
       /\ Shown \cap {"print_table", "declare"} = {}
       /\ pc # "start" =>
             /\ pc = "raised"
             /\ Printed("error", "No pipeline named found", pipeline)
                   \in Range(out)

\* list_runs has reported an absent pipeline on a store that holds another.
C8_Witness ==
    /\ cmd = "runs" /\ pc = "raised" /\ pipeline # None
    /\ Len(store0.pipelines) > 0
    /\ "get_pipeline" \in Ops(calls)

\* C5: run as the main program, the script builds one mnist_pipeline from
\* the steps importer, normalizer, trainer and evaluator and calls run()
\* once with a Schedule whose end_time is at least start_time plus ten
\* minutes and whose interval is 60 seconds; imported, it builds no
\* pipeline and triggers no run.
C5_ScriptSchedulesOneRun ==
    cmd = "script" =>
       /\ Cardinality(OpPositions(calls, "run")) <= 1
       /\ Cardinality(OpPositions(calls, "pipeline_class")) <= 1
       /\ (is_main /\ pc = "done") =>
             /\ Cardinality(Positions(calls, "pipeline_class",
                                      "mnist_pipeline")) = 1
             /\ Cardinality(Positions(calls, "run", "mnist_pipeline")) = 1
             /\ p.cls = "mnist_pipeline"
             /\ DOMAIN p.steps =
                   {"importer", "normalizer", "trainer", "evaluator"}
             /\ \A n \in DOMAIN p.steps : p.steps[n].cls = n
             /\ Cardinality(OpPositions(calls, "step_class")) = 4
             /\ schedule.end_time >= schedule.start_time + 10 * 60
             /\ schedule.interval_second = 60
       /\ ~is_main =>
             /\ Ops(calls) \cap {"pipeline_class", "step_class", "run",
                                 "Schedule"} = {}
             /\ p = NoInstance
             /\ schedule = NoSchedule

\* The script ran as main and the clock moved between the two readings.
C5_Witness ==
    /\ cmd = "script" /\ is_main /\ pc = "done"
    /\ "run" \in Ops(calls)
    /\ schedule.end_time > schedule.start_time + 10 * 60

====
